---- MODULE Spec2Model ----
(***************************************************************************)
(* A model of gyro_integrator.py: GyroIntegrator and its subclass          *)
(* FrameRotationIntegrator.                                                *)
(*                                                                         *)
(* Units.  Timestamps are integers (ticks).  Angular velocity is an        *)
(* integer multiple of 2*pi rad per tick about one coordinate axis, so     *)
(* that the half-angle vector ha = omega * dt * 0.5 of rate_to_quat is a   *)
(* whole number of quarter turns (pi/2) whenever 2*dt is a whole number of *)
(* ticks, and cos/sin take the exact values 0, 1, -1.  The time step       *)
(* delta_time is therefore carried as the integer 2*delta_time.            *)
(*                                                                         *)
(* A quaternion is the record [v, s]: the integer 4-vector v = (w,x,y,z)   *)
(* divided by s when s > 0, and v divided by its own Euclidean norm when   *)
(* s = 0 (the result of normalizing a vector whose norm is irrational).    *)
(* Both forms are kept in lowest terms, so equal quaternions are equal     *)
(* records.                                                                *)
(***************************************************************************)
EXTENDS Integers, Sequences, FiniteSets, TLC

(* The longest input matrix (rows) the constructor is given. *)
MaxLen == 3

(* The element assignments a caller makes to the arrays it was handed. *)
MaxWrites == 1

(* The value a caller assigns to an element of a returned time or gyro column. *)
WrittenValues == {7}

(* Input timestamps / frame numbers of a row. *)
TimeVals == {-1, 0, 1}

(* Input angular velocities of a row: none, or one unit about y. *)
OmegaVals == {<<0, 0, 0>>, <<0, 1, 0>>}

TimeScalings == {1, 2}

GyroScalings == {1}

(* Arguments <<start, interval>> of get_interpolated_stab_transform. *)
GridArgs == {<<-2, 1>>, <<0, 1>>, <<-1, 2>>, <<1, 2>>}

(* Arguments of get_raw_data: two valid keys and an unrecognized one. *)
AxisVals == {"t", "y", "q"}

Abs(n) == IF n < 0 THEN -n ELSE n

Sign(n) == IF n < 0 THEN -1 ELSE IF n > 0 THEN 1 ELSE 0

RECURSIVE Gcd(_, _)
Gcd(a, b) == IF b = 0 THEN a ELSE Gcd(b, a % b)

NormSq(v) == v[1] * v[1] + v[2] * v[2] + v[3] * v[3] + v[4] * v[4]

(* Integer square root of NormSq(v); it lies between the largest |v[i]| *)
(* and the sum of the |v[i]|.                                           *)
ISqrtNorm(v) ==
    LET lo == CHOOSE m \in {Abs(v[i]) : i \in 1..4} :
                  \A i \in 1..4 : Abs(v[i]) <= m
        hi == Abs(v[1]) + Abs(v[2]) + Abs(v[3]) + Abs(v[4])
    IN  CHOOSE k \in lo..hi : k * k <= NormSq(v) /\ (k + 1) * (k + 1) > NormSq(v)

(* [v, s] in lowest terms. *)
Reduce(v, s) ==
    LET g == Gcd(Gcd(Gcd(Gcd(Abs(v[1]), Abs(v[2])), Abs(v[3])), Abs(v[4])), s)
    IN  IF g = 0 THEN [v |-> v, s |-> 1]
        ELSE [v |-> <<v[1] \div g, v[2] \div g, v[3] \div g, v[4] \div g>>,
              s |-> s \div g]

(* quat.quaternion(q0, q1, q2, q3) *)
quaternion(q0, q1, q2, q3) == Reduce(<<q0, q1, q2, q3>>, 1)

(* Exactly unit norm. *)
IsUnit(q) == q.s = 0 \/ NormSq(q.v) = q.s * q.s

(* quat.normalize(q): q / |q|. *)
normalize(q) ==
    IF q.s = 0 \/ NormSq(q.v) = 0 THEN q
    ELSE LET r == ISqrtNorm(q.v)
         IN  IF r * r = NormSq(q.v) THEN Reduce(q.v, r) ELSE Reduce(q.v, 0)

(* quat.quaternion_multiply(a, b): the Hamilton product a * b.  A factor *)
(* in the norm form (s = 0) only ever meets a unit factor here.          *)
quaternion_multiply(a, b) ==
    LET p == a.v
        q == b.v
        h == << p[1] * q[1] - p[2] * q[2] - p[3] * q[3] - p[4] * q[4],
                p[1] * q[2] + p[2] * q[1] + p[3] * q[4] - p[4] * q[3],
                p[1] * q[3] - p[2] * q[4] + p[3] * q[1] + p[4] * q[2],
                p[1] * q[4] + p[2] * q[3] - p[3] * q[2] + p[4] * q[1] >>
    IN  Reduce(h, a.s * b.s)

(* cos and sin of m quarter turns. *)
CosQ(m) == <<1, 0, -1, 0>>[(m % 4) + 1]

SinQ(m) == <<0, 1, 0, -1>>[(m % 4) + 1]

(* rate_to_quat(omega, dt), with dt2 = 2 * dt.  ha = omega * dt * 0.5 is  *)
(* omega * dt2 quarter turns; l = |ha| is the sum of the absolute values  *)
(* because omega lies on one axis; l > 1.0e-12 is l # 0.                  *)
rate_to_quat(omega, dt2) ==
    LET ha == <<omega[1] * dt2, omega[2] * dt2, omega[3] * dt2>>
        l  == Abs(ha[1]) + Abs(ha[2]) + Abs(ha[3])
    IN  IF l # 0
        THEN normalize(quaternion(CosQ(l), Sign(ha[1]) * SinQ(l),
                                  Sign(ha[2]) * SinQ(l), Sign(ha[3]) * SinQ(l)))
        ELSE quaternion(1, 0, 0, 0)

(* The default initial orientation [1, 0.0001, 0.0001, 0.0001]. *)
DefaultOrientation == Reduce(<<10000, 1, 1, 1>>, 10000)

(* An absent array or argument (Python None) is the empty sequence; an *)
(* array of the program always has at least one row.                   *)
None == <<>>

(* initial_orientation arguments: None, or <<q>> for a given quaternion. *)
InitialOrientations ==
    { None, <<quaternion(1, 0, 0, 0)>> }

(* A row [time, gyroX, gyroY, gyroZ] of the input matrix. *)
Rows == {<<t, w[1], w[2], w[3]>> : t \in TimeVals, w \in OmegaVals}

Inputs == UNION {[1..n -> Rows] : n \in 1..MaxLen}


Kinds == {"Gyro", "Frame"}

(* The smoothing strategies a caller can hand to set_smoothing_algo: *)
(* none (a falsy argument) or a PlainSlerp instance.                 *)
AlgoArgs == {"None", "PlainSlerp"}

VARIABLES
    kind,                \* the class of the instance: GyroIntegrator, FrameRotationIntegrator
                         \* or EulerIntegrator
    input_data,          \* constructor argument, as the caller passed it
    time_scaling,        \* constructor argument
    zero_out_time,       \* constructor argument
    initial_orientation, \* constructor argument
    data,                \* self.data
    num_data_points,     \* self.num_data_points
    orientation,         \* self.orientation
    orientation_list,    \* self.orientation_list
    euler_orientation_list, \* self.euler_orientation_list (EulerIntegrator only)
    time_list,           \* self.time_list
    already_integrated,  \* self.already_integrated
    smoothing_algo,      \* self.smoothing_algo ("Unset": the attribute does not exist)
    ret,                 \* what the last call returned to the caller
    first,               \* the track the first integrate_all call computed and returned
    writes               \* element assignments the caller has made to returned arrays

vars == <<kind, input_data, time_scaling, zero_out_time, initial_orientation, data,
          num_data_points, orientation, orientation_list, euler_orientation_list,
          time_list, already_integrated, smoothing_algo, ret, first, writes>>

args == <<kind, input_data, time_scaling, zero_out_time, initial_orientation>>

(* ---------------------------------------------------------------------- *)
(* Construction                                                           *)
(* ---------------------------------------------------------------------- *)

(* self.data[:-1,0] > self.data[1:,0] *)
time_order_check(d) == [i \in 1..(Len(d) - 1) |-> d[i][1] > d[i + 1][1]]

(* np.any *)
any(b) == \E i \in DOMAIN b : b[i]

(* A plausible slip: the index of the last True instead of the first. *)
argmax_last(b) ==
    IF any(b) THEN (CHOOSE i \in DOMAIN b : b[i] /\ \A j \in DOMAIN b : b[j] => j <= i) - 1
    ELSE 0

(* np.argmax of a boolean array: the 0-based index of the first True, 0 if none. *)
argmax(b) ==
    IF any(b) THEN (CHOOSE i \in DOMAIN b : b[i] /\ \A j \in 1..(i - 1) : ~b[j]) - 1
    ELSE 0

(* A plausible slip: the slice end one row too far. *)
truncate_one_more(d) ==
    IF any(time_order_check(d))
    THEN SubSeq(d, 1, argmax(time_order_check(d)) + 2)
    ELSE d

(* Lines 27-30: self.data[0:np.argmax(time_order_check)+1,:] when any pair decreases. *)
truncate(d) ==
    IF any(time_order_check(d))
    THEN SubSeq(d, 1, argmax(time_order_check(d)) + 1)
    ELSE d

(* Lines 33-34: column 0 times time_scaling, columns 1..3 times gyro_scaling. *)
scale(d, ts, gs) ==
    [i \in DOMAIN d |-> <<d[i][1] * ts, d[i][2] * gs, d[i][3] * gs, d[i][4] * gs>>]

(* Line 38: self.data[:,2] *= -1 *)
right_handed(d) == [i \in DOMAIN d |-> <<d[i][1], d[i][2], -d[i][3], d[i][4]>>]

(* Lines 41-42: self.data[:,0] -= self.data[0,0] *)
zero_out(d, zo) ==
    IF zo THEN [i \in DOMAIN d |-> <<d[i][1] - d[1][1], d[i][2], d[i][3], d[i][4]>>]
    ELSE d

(* self.data after GyroIntegrator.__init__ *)
gyro_data(inp, ts, gs, zo) == zero_out(right_handed(scale(truncate(inp), ts, gs)), zo)

(* Lines 49-52 and 309-312. *)
start_orientation(io) == IF Len(io) = 1 THEN io[1] ELSE DefaultOrientation

(* A returned value as the caller holds it.  a, b: the two returned arrays    *)
(* (b empty when one array is returned); rule: for the resampler, the branch  *)
(* that emitted each output; own_a, own_b: the attribute of the instance the  *)
(* returned array is ("time_list", "orientation_list", or "data" for a view   *)
(* of a column of self.data), "" for a new array; cached: integrate_all took  *)
(* its already_integrated branch; written: the caller has assigned to an      *)
(* element of it.                                                             *)
Returned(op, a, b, own_a, own_b) ==
    [op |-> op, status |-> "value", a |-> a, b |-> b, rule |-> <<>>,
     own_a |-> own_a, own_b |-> own_b, start |-> 0, interval |-> 0, axis |-> "",
     cached |-> FALSE, written |-> FALSE]

ReturnedNone(op) ==
    [Returned(op, <<>>, <<>>, "", "") EXCEPT !.status = "none"]

(* The call raised an exception. *)
Raised(op) ==
    [Returned(op, <<>>, <<>>, "", "") EXCEPT !.status = "error"]

NoCall == ReturnedNone("")

Init ==
    \E k \in Kinds, inp \in Inputs, ts \in TimeScalings, gs \in GyroScalings,
       zo \in BOOLEAN, io \in InitialOrientations :
        \* FrameRotationIntegrator.__init__ takes only input_data and initial_orientation
        /\ k = "Frame" => ts = 1 /\ gs = 1 /\ ~zo
        /\ kind = k
        /\ input_data = inp
        /\ time_scaling = ts
        /\ zero_out_time = zo
        /\ initial_orientation = io
        /\ data = IF k = "Gyro" THEN gyro_data(inp, ts, gs, zo) ELSE inp
        /\ num_data_points = Len(data)
        /\ orientation = start_orientation(io)
        /\ orientation_list = None
        /\ euler_orientation_list = None
        /\ time_list = None
        /\ already_integrated = FALSE
        /\ smoothing_algo = IF k = "Gyro" THEN "None" ELSE "Unset"
        /\ ret = NoCall
        /\ first = NoCall
        /\ writes = 0

(* ---------------------------------------------------------------------- *)
(* integrate_all                                                          *)
(* ---------------------------------------------------------------------- *)

omega_of(row) == <<row[2], row[3], row[4]>>

(* np.any(omega) *)
any_omega(w) == w[1] # 0 \/ w[2] # 0 \/ w[3] # 0

(* Lines 89-94: 2 * delta_time = next_time - last_time, the sample's own time *)
(* standing in for a missing neighbour.                                        *)
gyro_delta_time2(d, i) ==
    LET last_time == IF i > 1 THEN d[i - 1][1] ELSE d[i][1]
        next_time == IF i < Len(d) THEN d[i + 1][1] ELSE d[i][1]
    IN  next_time - last_time

(* Line 354: delta_time = 1 frame, so 2 * delta_time is 2. *)
frame_delta_time2 == 2

(* A plausible slip: the normalization moved out of the if. *)
update_always_normalized(q, w, dt2) ==
    normalize(IF any_omega(w) THEN quaternion_multiply(q, rate_to_quat(w, dt2)) ELSE q)

(* Lines 97-104 and 357-364: compose and renormalize when omega is present. *)
update(q, w, dt2) ==
    IF any_omega(w)
    THEN normalize(quaternion_multiply(q, rate_to_quat(w, dt2)))
    ELSE q

(* Lines 83-107 and 346-367: the loop from sample i on; q is self.orientation, *)
(* tl and ol the temp lists.                                                   *)
RECURSIVE integrate_loop(_, _, _, _, _, _)
integrate_loop(k, d, i, q, tl, ol) ==
    IF i > Len(d)
    THEN [orientation |-> q, time_list |-> tl, orientation_list |-> ol]
    ELSE LET dt2 == IF k = "Gyro" THEN gyro_delta_time2(d, i) ELSE frame_delta_time2
             q2  == update(q, omega_of(d[i]), dt2)
         IN  integrate_loop(k, d, i + 1, q2, Append(tl, d[i][1]), Append(ol, q2))

(* The temp lists before the loop: empty, or seeded (lines 342-343). *)
integrate_run(k, d, q) ==
    IF k = "Gyro"
    THEN integrate_loop(k, d, 1, q, <<>>, <<>>)
    ELSE integrate_loop(k, d, 1, q, <<d[1][1] - 1>>, <<q>>)

(* Lines 79-114 and 337-374: integrate and cache. *)
integrate_compute ==
    LET r == integrate_run(kind, data, orientation)
        out == Returned("integrate_all", r.time_list, r.orientation_list,
                        "time_list", "orientation_list")
    IN  /\ orientation' = r.orientation
        /\ orientation_list' = r.orientation_list
        /\ time_list' = r.time_list
        /\ already_integrated' = TRUE
        /\ ret' = out
        /\ first' = IF already_integrated THEN first ELSE out
        /\ UNCHANGED <<args, euler_orientation_list, writes, data, num_data_points, smoothing_algo>>

(* Lines 75-76 and 333-334: the cached track. *)
integrate_cached ==
    /\ ret' = [Returned("integrate_all", time_list, orientation_list,
                       "time_list", "orientation_list") EXCEPT !.cached = TRUE]
    /\ UNCHANGED <<args, euler_orientation_list, writes, data, num_data_points, orientation, orientation_list,
                   time_list, already_integrated, smoothing_algo, first>>

(* A plausible slip: no already_integrated guard, every call integrates again. *)
integrate_all_unguarded == integrate_compute

(* Lines 68-114 and 326-374. *)
integrate_all ==
    IF already_integrated THEN integrate_cached ELSE integrate_compute

(* ---------------------------------------------------------------------- *)
(* Accessors                                                              *)
(* ---------------------------------------------------------------------- *)

(* Lines 117-127. *)
get_orientations ==
    /\ ret' = IF already_integrated
              THEN Returned("get_orientations", time_list, orientation_list,
                            "time_list", "orientation_list")
              ELSE ReturnedNone("get_orientations")
    /\ UNCHANGED <<args, euler_orientation_list, writes, data, num_data_points, orientation, orientation_list,
                   time_list, already_integrated, smoothing_algo, first>>

(* Lines 129-133: a falsy argument only rebinds the local name. *)
set_smoothing_algo(algo) ==
    /\ smoothing_algo' = IF algo = "None" THEN smoothing_algo ELSE algo
    /\ ret' = ReturnedNone("set_smoothing_algo")
    /\ UNCHANGED <<args, euler_orientation_list, writes, data, num_data_points, orientation, orientation_list,
                   time_list, already_integrated, first>>

(* quat.slerp(a, b, [weight]) and quat.rot_between(a, b) of the quaternion *)
(* library, kept as terms: the interpolation of a towards b by the weight  *)
(* w = <<numerator, denominator>>, and the rotation taking a to b.         *)
slerp(a, b, w) == [slerp_from |-> a, slerp_to |-> b, weight |-> w]

rot_between(a, b) == [rot_from |-> a, rot_to |-> b]

(* The weight of the default strategy. *)
PlainSlerpAlpha == <<1, 2>>

(* smoothing_algos.PlainSlerp.get_smooth_orientations: the forward pass from *)
(* index i on, value being the running value.                                *)
RECURSIVE forward_pass(_, _, _, _)
forward_pass(ol, i, value, acc) ==
    IF i > Len(ol) THEN acc
    ELSE LET v == slerp(value, ol[i], PlainSlerpAlpha)
         IN  forward_pass(ol, i + 1, v, Append(acc, v))

(* The backward pass over the forward-pass output, from index i down. *)
RECURSIVE backward_pass(_, _, _, _)
backward_pass(fw, i, value, acc) ==
    IF i < 1 THEN acc
    ELSE LET v == slerp(value, fw[i], PlainSlerpAlpha)
         IN  backward_pass(fw, i - 1, v, <<v>> \o acc)

get_smooth_orientations(ol) ==
    LET fw == forward_pass(ol, 1, ol[1], <<>>)
    IN  backward_pass(fw, Len(fw), fw[Len(fw)], <<>>)

(* smoothing_algo.bypass_external_processing of the default strategy. *)
bypass_external_processing(algo) == FALSE

(* Lines 139-140: the strategy in use after get_smoothed_orientation. *)
algo_in_use(algo) == IF algo = "None" THEN "PlainSlerp" ELSE algo

(* Lines 135-142.  FrameRotationIntegrator.__init__ never sets               *)
(* self.smoothing_algo, so reading it raises.  What the strategy does with   *)
(* (None, None) is its own business: outcome is "error" or "none".           *)
get_smoothed_orientation ==
    /\ IF smoothing_algo = "Unset"
       THEN /\ ret' = Raised("get_smoothed_orientation")
            /\ UNCHANGED smoothing_algo
       ELSE /\ smoothing_algo' = algo_in_use(smoothing_algo)
            /\ IF already_integrated
               THEN ret' = Returned("get_smoothed_orientation", time_list,
                                    get_smooth_orientations(orientation_list), "", "")
               ELSE \E outcome \in {"error", "none"} :
                        ret' = IF outcome = "error"
                               THEN Raised("get_smoothed_orientation")
                               ELSE ReturnedNone("get_smoothed_orientation")
    /\ UNCHANGED <<args, euler_orientation_list, writes, data, num_data_points, orientation, orientation_list,
                   time_list, already_integrated, first>>

(* np.zeros: a row of a zero-filled array. *)
ZeroRow == [v |-> <<0, 0, 0, 0>>, s |-> 1]

(* Lines 185-189: rows 0..n-1 of the zero-filled array are assigned. *)
stab_rotations(n, smoothed, ol) ==
    [i \in 1..Len(ol) |-> IF i <= n THEN rot_between(smoothed[i], ol[i]) ELSE ZeroRow]

(* Lines 180-191 can run to the end: the strategy exists and               *)
(* self.orientation_list is an array (np.zeros(None.shape) raises).        *)
stabilize_ok == smoothing_algo # "Unset" /\ already_integrated

stabilize_value ==
    stab_rotations(num_data_points, get_smooth_orientations(orientation_list),
                   orientation_list)

(* Lines 180-191. *)
get_stabilize_transform ==
    /\ smoothing_algo' = IF smoothing_algo = "Unset" THEN smoothing_algo
                         ELSE algo_in_use(smoothing_algo)
    /\ ret' = IF stabilize_ok
              THEN Returned("get_stabilize_transform", time_list, stabilize_value,
                            "time_list", "")
              ELSE Raised("get_stabilize_transform")
    /\ UNCHANGED <<args, euler_orientation_list, writes, data, num_data_points, orientation, orientation_list,
                   time_list, already_integrated, first>>

(* ---------------------------------------------------------------------- *)
(* get_interpolated_stab_transform                                        *)
(* ---------------------------------------------------------------------- *)

(* The resampler's locals: time, out_times, slerped_rotations, and for each *)
(* output the loop that appended it.                                        *)
resample_start(start) ==
    [time |-> start, out_times |-> <<>>, rotations |-> <<>>, rule |-> <<>>]

(* append, append, time += interval *)
emit(st, rotation, rule, interval) ==
    [time |-> st.time + interval,
     out_times |-> Append(st.out_times, st.time),
     rotations |-> Append(st.rotations, rotation),
     rule |-> Append(st.rule, rule)]

(* Lines 210-213: while time < 0. *)
RECURSIVE while_negative(_, _, _)
while_negative(st, so, interval) ==
    IF st.time < 0
    THEN while_negative(emit(st, so[1], "negative", interval), so, interval)
    ELSE st

(* Lines 215-218: while time_list[0] >= time. *)
RECURSIVE while_before_first(_, _, _, _)
while_before_first(st, tl, so, interval) ==
    IF tl[1] >= st.time
    THEN while_before_first(emit(st, so[1], "first", interval), tl, so, interval)
    ELSE st

(* Line 225: (time - time_list[i]) / (time_list[i+1] - time_list[i]), in *)
(* lowest terms.                                                         *)
weight(time, ti, tj) ==
    LET g == Gcd(time - ti, tj - ti)
    IN  <<(time - ti) \div g, (tj - ti) \div g>>

(* A plausible slip: the interval closed at its upper end. *)
in_interval_closed(time, ti, tj) == ti <= time /\ time <= tj /\ ti < tj

(* Line 222: time_list[i] <= time < time_list[i+1]. *)
in_interval(time, ti, tj) == ti <= time /\ time < tj

(* A plausible slip: the times between two input timestamps get the *)
(* earlier rotation instead of an interpolated one.                 *)
RECURSIVE while_between_hold(_, _, _, _, _)
while_between_hold(st, tl, so, i, interval) ==
    IF in_interval(st.time, tl[i], tl[i + 1])
    THEN while_between_hold(emit(st, so[i], "hold", interval), tl, so, i, interval)
    ELSE st

(* Lines 222-229: the inner while of iteration i. *)
RECURSIVE while_between(_, _, _, _, _)
while_between(st, tl, so, i, interval) ==
    IF in_interval(st.time, tl[i], tl[i + 1])
    THEN while_between(
             emit(st, slerp(so[i], so[i + 1], weight(st.time, tl[i], tl[i + 1])),
                  "slerp", interval),
             tl, so, i, interval)
    ELSE st

(* Lines 221-235: the for loop from iteration i on (i is 1-based here). *)
RECURSIVE for_loop(_, _, _, _, _)
for_loop(st, tl, so, i, interval) ==
    IF i > Len(tl) - 1 THEN st
    ELSE LET s1 == while_between(st, tl, so, i, interval)
             s2 == IF s1.time < tl[i] THEN emit(s1, so[i], "hold", interval) ELSE s1
         IN  for_loop(s2, tl, so, i + 1, interval)

(* Lines 205-237. *)
resample(tl, so, start, interval) ==
    for_loop(while_before_first(while_negative(resample_start(start), so, interval),
                                tl, so, interval),
             tl, so, 1, interval)

(* Lines 194-237.  Reading self.smoothing_algo raises on an instance that *)
(* never got one; otherwise every path goes through                       *)
(* get_stabilize_transform.                                               *)
get_interpolated_stab_transform(start, interval) ==
    /\ smoothing_algo' = IF smoothing_algo = "Unset" THEN smoothing_algo
                         ELSE algo_in_use(smoothing_algo)
    /\ ret' = IF stabilize_ok /\ ~bypass_external_processing(smoothing_algo)
              THEN LET r == resample(time_list, stabilize_value, start, interval)
                   IN  [Returned("get_interpolated_stab_transform", r.out_times,
                                 r.rotations, "", "")
                        EXCEPT !.rule = r.rule, !.start = start, !.interval = interval]
              ELSE Raised("get_interpolated_stab_transform")
    /\ UNCHANGED <<args, euler_orientation_list, writes, data, num_data_points, orientation, orientation_list,
                   time_list, already_integrated, first>>

(* ---------------------------------------------------------------------- *)
(* get_raw_data                                                           *)
(* ---------------------------------------------------------------------- *)

(* Lines 250-256: the keys of the dict. *)
AxisKeys == {"t", "x", "y", "z", "xyz"}

(* self.data[:,idx] *)
column(d, axis) ==
    [i \in DOMAIN d |->
        CASE axis = "t" -> d[i][1]
          [] axis = "x" -> d[i][2]
          [] axis = "y" -> d[i][3]
          [] axis = "z" -> d[i][4]
          [] axis = "xyz" -> <<d[i][2], d[i][3], d[i][4]>>]

(* A plausible slip: the column returned without np.copy, a view of self.data. *)
raw_data_view(d, axis) ==
    [Returned("get_raw_data", column(d, axis), <<>>, "data", "") EXCEPT !.axis = axis]

(* Line 258: np.copy(self.data[:,idx]). *)
raw_data_copy(d, axis) ==
    [Returned("get_raw_data", column(d, axis), <<>>, "", "") EXCEPT !.axis = axis]

(* Lines 239-258: an unknown key raises KeyError. *)
get_raw_data(axis) ==
    /\ ret' = IF axis \in AxisKeys THEN raw_data_copy(data, axis)
              ELSE Raised("get_raw_data")
    /\ UNCHANGED <<args, euler_orientation_list, writes, data, num_data_points, orientation, orientation_list,
                   time_list, already_integrated, smoothing_algo, first>>

Next ==
    \/ integrate_all
    \/ get_orientations
    \/ \E algo \in AlgoArgs : set_smoothing_algo(algo)
    \/ get_stabilize_transform
    \/ get_smoothed_orientation
    \/ \E g \in GridArgs : get_interpolated_stab_transform(g[1], g[2])
    \/ \E axis \in AxisVals : get_raw_data(axis)

Spec == Init /\ [][Next]_vars

(* ---------------------------------------------------------------------- *)
(* A caller that assigns to the arrays it was handed                      *)
(* ---------------------------------------------------------------------- *)

(* The accessors that hand out arrays of the instance's state. *)
ArrayAccessors == {"integrate_all", "get_orientations", "get_raw_data"}

(* self.data with the column of `axis` replaced by col: a write through a view. *)
with_column(d, axis, col) ==
    [i \in DOMAIN d |->
        CASE axis = "t" -> <<col[i], d[i][2], d[i][3], d[i][4]>>
          [] axis = "x" -> <<d[i][1], col[i], d[i][3], d[i][4]>>
          [] axis = "y" -> <<d[i][1], d[i][2], col[i], d[i][4]>>
          [] axis = "z" -> <<d[i][1], d[i][2], d[i][3], col[i]>>]

(* result[0][i] = x on the first returned array.  A numpy array that is the *)
(* instance's own object, or a view of it, carries the write into it.       *)
caller_write_a(i, x) ==
    LET new == [ret.a EXCEPT ![i] = x]
    IN  /\ ret' = [ret EXCEPT !.a = new, !.written = TRUE]
        /\ time_list' = IF ret.own_a = "time_list" THEN new ELSE time_list
        /\ data' = IF ret.own_a = "data" THEN with_column(data, ret.axis, new) ELSE data
        /\ UNCHANGED orientation_list

(* result[1][i] = 0 on the second returned array. *)
caller_write_b(i) ==
    LET new == [ret.b EXCEPT ![i] = ZeroRow]
    IN  /\ ret' = [ret EXCEPT !.b = new, !.written = TRUE]
        /\ orientation_list' = IF ret.own_b = "orientation_list" THEN new
                               ELSE orientation_list
        /\ UNCHANGED <<time_list, data>>

caller_write ==
    /\ writes < MaxWrites
    /\ ret.status = "value"
    /\ ret.op \in ArrayAccessors
    /\ writes' = writes + 1
    /\ \/ \E i \in 1..Len(ret.a), x \in WrittenValues : caller_write_a(i, x)
       \/ \E i \in 1..Len(ret.b) : caller_write_b(i)
    /\ UNCHANGED <<args, euler_orientation_list, num_data_points, orientation, already_integrated,
                   smoothing_algo, first>>

NextCaller ==
    \/ integrate_all
    \/ get_orientations
    \/ \E axis \in AxisVals : get_raw_data(axis)
    \/ caller_write

(* The instance used by a caller that also writes to what it was handed. *)
SpecCaller == Init /\ [][NextCaller]_vars

(* ---------------------------------------------------------------------- *)
(* EulerIntegrator                                                        *)
(* ---------------------------------------------------------------------- *)

(* Lines 397-404: self.data after EulerIntegrator.__init__: scaled and  *)
(* zeroed, with no ordering check and no change of handedness.          *)
euler_data(inp, ts, gs, zo) == zero_out(scale(inp, ts, gs), zo)

(* Lines 384-412.  The constructor sets data, num_data_points,            *)
(* euler_orientation_list, time_list and already_integrated; it sets no   *)
(* orientation, no orientation_list and no smoothing_algo on the          *)
(* instance.                                                              *)
InitEuler ==
    \E inp \in Inputs, ts \in TimeScalings, gs \in GyroScalings, zo \in BOOLEAN :
        /\ kind = "Euler"
        /\ input_data = inp
        /\ time_scaling = ts
        /\ zero_out_time = zo
        /\ initial_orientation = None
        /\ data = euler_data(inp, ts, gs, zo)
        /\ num_data_points = Len(data)
        /\ orientation = None
        /\ orientation_list = None
        /\ euler_orientation_list = None
        /\ time_list = None
        /\ already_integrated = FALSE
        /\ smoothing_algo = "Unset"
        /\ ret = NoCall
        /\ first = NoCall
        /\ writes = 0

(* The attributes an EulerIntegrator has: orientation_list is not one of *)
(* them, the class only ever assigns euler_orientation_list (lines 409   *)
(* and 453).                                                             *)
EulerAttributes ==
    {"data", "num_data_points", "euler_orientation_list", "time_list",
     "already_integrated"}

(* The call raised the named exception. *)
RaisedWith(op, exception) == [Raised(op) EXCEPT !.rule = <<exception>>]

(* Lines 437-442: 2 * delta_time = next_time - last_time, the sample's own *)
(* time standing in for a missing neighbour.                                *)
euler_delta_time2(d, i) ==
    LET last_time == IF i > 1 THEN d[i - 1][1] ELSE d[i][1]
        next_time == IF i < Len(d) THEN d[i + 1][1] ELSE d[i][1]
    IN  next_time - last_time

(* Lines 429, 442, 445-446: euler_orientation is created as an integer     *)
(* array, delta_time is the result of a true division and so a float, and  *)
(* euler_orientation += omega * delta_time adds a float array in place:    *)
(* numpy refuses to cast the float sum into the integer array.  The        *)
(* statement runs for the first sample whose angular velocity is not zero. *)
euler_add_rejected(d) == \E i \in DOMAIN d : any_omega(omega_of(d[i]))

(* Lines 429-449 when no sample has angular velocity: every appended copy *)
(* of euler_orientation is the [0, 0, 0] of line 429.                     *)
euler_loop(d) == [i \in DOMAIN d |-> <<0, 0, 0>>]

(* Lines 415-458. *)
euler_integrate_all ==
    /\ kind = "Euler"
    /\ IF already_integrated
       THEN \* line 423 reads self.orientation_list
            /\ ret' = IF "orientation_list" \in EulerAttributes
                      THEN Returned("integrate_all", time_list, orientation_list,
                                    "time_list", "orientation_list")
                      ELSE RaisedWith("integrate_all", "AttributeError")
            /\ UNCHANGED <<euler_orientation_list, time_list, already_integrated>>
       ELSE IF euler_add_rejected(data)
       THEN \* line 446 raises before anything is stored
            /\ ret' = RaisedWith("integrate_all", "UFuncTypeError")
            /\ UNCHANGED <<euler_orientation_list, time_list, already_integrated>>
       ELSE \* lines 453-456 store the track, line 458 reads self.orientation_list
            /\ euler_orientation_list' = euler_loop(data)
            /\ time_list' = [i \in DOMAIN data |-> data[i][1]]
            /\ already_integrated' = TRUE
            /\ ret' = IF "orientation_list" \in EulerAttributes
                      THEN Returned("integrate_all", time_list', orientation_list,
                                    "time_list", "orientation_list")
                      ELSE RaisedWith("integrate_all", "AttributeError")
    /\ UNCHANGED <<args, writes, data, num_data_points, orientation, orientation_list,
                   smoothing_algo, first>>

(* Lines 461-471. *)
euler_get_orientations ==
    /\ kind = "Euler"
    /\ ret' = IF already_integrated
              THEN IF "orientation_list" \in EulerAttributes
                   THEN Returned("get_orientations", time_list, orientation_list,
                                 "time_list", "orientation_list")
                   ELSE RaisedWith("get_orientations", "AttributeError")
              ELSE ReturnedNone("get_orientations")
    /\ UNCHANGED <<args, writes, data, num_data_points, orientation, orientation_list,
                   euler_orientation_list, time_list, already_integrated,
                   smoothing_algo, first>>

NextEuler ==
    \/ euler_integrate_all
    \/ euler_get_orientations

SpecEuler == InitEuler /\ [][NextEuler]_vars

(* ---------------------------------------------------------------------- *)
(* Properties                                                             *)
(* ---------------------------------------------------------------------- *)

NonDecreasing(t) == \A i \in 1..(Len(t) - 1) : t[i] <= t[i + 1]

StrictlyAscending(t) == \A i \in 1..(Len(t) - 1) : t[i] < t[i + 1]

(* The indices i of the input at which time[i] > time[i+1]. *)
Decreases(inp) == {i \in 1..(Len(inp) - 1) : inp[i][1] > inp[i + 1][1]}

(* The number of leading rows the claim says the constructor retains. *)
Retained(inp) ==
    IF Decreases(inp) = {} THEN Len(inp)
    ELSE CHOOSE i \in Decreases(inp) : \A j \in Decreases(inp) : i <= j

(* C1: a GyroIntegrator built from a matrix whose timestamps decrease       *)
(* somewhere keeps exactly the rows up to and including the first index i   *)
(* with time[i] > time[i+1] (all rows when there is none), each timestamp   *)
(* scaled and shifted; the retained series, the cached time_list and the    *)
(* time_list integrate_all returns hold no consecutive pair whose later     *)
(* timestamp is smaller.                                                    *)
C1_TruncatedPrefix ==
    kind = "Gyro" =>
        LET shift == IF zero_out_time THEN input_data[1][1] * time_scaling ELSE 0
        IN  /\ Len(data) = Retained(input_data)
            /\ \A i \in 1..Len(data) :
                   data[i][1] = input_data[i][1] * time_scaling - shift
            /\ NonDecreasing([i \in 1..Len(data) |-> data[i][1]])
            /\ already_integrated =>
                   /\ time_list = [i \in 1..Len(data) |-> data[i][1]]
                   /\ NonDecreasing(time_list)
            /\ ret.op = "integrate_all" => NonDecreasing(ret.a)

(* C1 witness: timestamps that rise and then fall were cut to the rising *)
(* prefix, and integrate_all returned it.                                *)
C1_Witness ==
    /\ kind = "Gyro"
    /\ Len(input_data) = 3
    /\ input_data[1][1] < input_data[2][1]
    /\ input_data[2][1] > input_data[3][1]
    /\ ret.op = "integrate_all"
    /\ Len(ret.a) = 2
    /\ Len(data) = 2

(* C2: integrate_all is idempotent.  Once already_integrated holds it holds *)
(* after every call, no call changes self.orientation or the cached track,  *)
(* and an integrate_all call on a Computed instance returns the track the   *)
(* first call returned.                                                     *)
C2_Idempotent ==
    [][already_integrated =>
          /\ already_integrated'
          /\ orientation' = orientation
          /\ time_list' = time_list
          /\ orientation_list' = orientation_list
          /\ first' = first
          /\ ret'.op = "integrate_all" => ret'.a = first.a /\ ret'.b = first.b]_vars

(* C2 witness: a second integrate_all call, on an instance whose first run *)
(* rotated the orientation, returned the first call's track.               *)
C2_Witness ==
    /\ ret.op = "integrate_all"
    /\ ret.cached
    /\ ret.a = first.a
    /\ ret.b = first.b
    /\ Len(ret.b) >= 2
    /\ orientation # start_orientation(initial_orientation)

DerivedAccessors ==
    {"get_orientations", "get_smoothed_orientation", "get_stabilize_transform",
     "get_interpolated_stab_transform"}

(* C4: on a GyroIntegrator on which integrate_all has not run, every *)
(* derived-state accessor returns the no-data value and never raises. *)
C4_NoDataBeforeIntegration ==
    (kind = "Gyro" /\ ~already_integrated /\ ret.op \in DerivedAccessors)
        => ret.status = "none"

IsResampled ==
    /\ ret.op = "get_interpolated_stab_transform"
    /\ ret.status = "value"

(* The grid times the resampler emits: those that are negative, or at or *)
(* before the first input timestamp, or before the last one.             *)
Emitted(tl, g) == g < 0 \/ g <= tl[1] \/ g < tl[Len(tl)]

(* C5, as amended: for a time_list that never decreases and interval > 0,  *)
(* get_interpolated_stab_transform returns equal-length, strictly          *)
(* ascending (out_times, rotations) where out_times is the run of          *)
(* consecutive grid times start, start + interval, ... up to but not       *)
(* including the first grid time that is neither negative, nor at or       *)
(* before the first input timestamp, nor strictly before the last one.     *)
C5_GridRun ==
    (IsResampled /\ NonDecreasing(time_list)) =>
        /\ Len(ret.a) = Len(ret.b)
        /\ StrictlyAscending(ret.a)
        /\ \A k \in 1..Len(ret.a) : ret.a[k] = ret.start + (k - 1) * ret.interval
        /\ \A k \in 1..Len(ret.a) : Emitted(time_list, ret.a[k])
        /\ ~Emitted(time_list, ret.start + Len(ret.a) * ret.interval)

(* C5 witness: time_list [0, 1, 2] in half ticks, interval 0.5, start 0: *)
(* the output times are [0, 0.5, 1, 1.5].                                *)
C5_Witness ==
    /\ IsResampled
    /\ kind = "Gyro"
    /\ time_list = <<0, 2, 4>>
    /\ ret.start = 0
    /\ ret.interval = 1
    /\ ret.a = <<0, 1, 2, 3>>

(* C5 as stated: out_times is exactly the run of consecutive grid times *)
(* that are not beyond the last input timestamp.                        *)
C5_GridUpToLast ==
    (IsResampled /\ StrictlyAscending(time_list)) =>
        /\ Len(ret.a) = Len(ret.b)
        /\ StrictlyAscending(ret.a)
        /\ \A k \in 1..Len(ret.a) : ret.a[k] = ret.start + (k - 1) * ret.interval
        /\ \A k \in 1..Len(ret.a) : ret.a[k] <= time_list[Len(time_list)]
        /\ ret.start + Len(ret.a) * ret.interval > time_list[Len(time_list)]

(* C6: in GyroIntegrator.get_interpolated_stab_transform every output time  *)
(* at or before the first input timestamp, and every negative output time,  *)
(* is paired with stab[0]; no output time strictly after the first input    *)
(* timestamp is paired with stab[0] by one of the two clamping loops.       *)
C6_ClampToStart ==
    (IsResampled /\ kind = "Gyro") =>
        \A k \in 1..Len(ret.a) :
            /\ (ret.a[k] <= time_list[1] \/ ret.a[k] < 0) => ret.b[k] = stabilize_value[1]
            /\ ret.a[k] > time_list[1] => ret.rule[k] \notin {"negative", "first"}

(* The input interval a time falls in: the i with                     *)
(* time_list[i] <= g < time_list[i+1], past the two clamping loops.   *)
InGap(tl, i, g) == g >= 0 /\ g > tl[1] /\ tl[i] <= g /\ g < tl[i + 1]

C7_UnitNorm ==
    already_integrated => \A i \in 1..Len(orientation_list) : IsUnit(orientation_list[i])

(* The offset of sample i in the track: the seeded entry of *)
(* FrameRotationIntegrator comes first.                     *)
TrackOffset == IF kind = "Frame" THEN 1 ELSE 0

(* C8: a sample whose angular velocity is exactly zero leaves the running  *)
(* orientation as it was: its track entry equals the previous entry (the   *)
(* initial orientation for the first sample) and its timestamp is in the   *)
(* track; an all-zero series yields the initial orientation at every entry.*)
C8_ZeroHolds ==
    already_integrated =>
        LET q0 == start_orientation(initial_orientation)
            previous(i) == IF i + TrackOffset = 1 THEN q0
                           ELSE orientation_list[i + TrackOffset - 1]
        IN  /\ Len(time_list) = Len(data) + TrackOffset
            /\ Len(orientation_list) = Len(data) + TrackOffset
            /\ \A i \in 1..Len(data) :
                   ~any_omega(omega_of(data[i])) =>
                       /\ orientation_list[i + TrackOffset] = previous(i)
                       /\ time_list[i + TrackOffset] = data[i][1]
            /\ (\A i \in 1..Len(data) : ~any_omega(omega_of(data[i]))) =>
                   /\ \A j \in 1..Len(orientation_list) : orientation_list[j] = q0
                   /\ orientation = q0

(* C8 witness: the default orientation, a rotating sample and then a zero *)
(* sample, which repeats the rotated orientation.                         *)
C8_Witness ==
    /\ already_integrated
    /\ kind = "Gyro"
    /\ initial_orientation = None
    /\ \E i \in 2..Len(data) :
           /\ ~any_omega(omega_of(data[i]))
           /\ orientation_list[i] = orientation_list[i - 1]
           /\ orientation_list[i] # DefaultOrientation

(* C9, as amended: the track of a GyroIntegrator has time_list and        *)
(* orientation_list of equal length N, the number of retained samples,    *)
(* and time_list never decreases: time_list[i] <= time_list[i+1]; equal   *)
(* timestamps of the input stay in the track.                             *)
C9_TrackNonDecreasing ==
    (kind = "Gyro" /\ already_integrated) =>
        /\ Len(time_list) = Retained(input_data)
        /\ Len(orientation_list) = Len(time_list)
        /\ num_data_points = Len(time_list)
        /\ NonDecreasing(time_list)
        /\ \A i \in 1..(Len(time_list) - 1) :
               input_data[i][1] = input_data[i + 1][1] => time_list[i] = time_list[i + 1]

(* C9 witness: a track with a repeated timestamp. *)
C9_Witness ==
    /\ kind = "Gyro"
    /\ already_integrated
    /\ ret.op = "integrate_all"
    /\ \E i \in 1..(Len(time_list) - 1) : time_list[i] = time_list[i + 1]

(* C9 as stated: equal lengths and a strictly ascending time_list. *)
C9_TrackStrictlyAscending ==
    (kind = "Gyro" /\ already_integrated) =>
        /\ Len(orientation_list) = Len(time_list)
        /\ num_data_points = Len(time_list)
        /\ StrictlyAscending(time_list)

(* C10: get_stabilize_transform after integrate_all returns a track as  *)
(* long as the orientation track in which every entry i is the relative *)
(* rotation from smoothed_orientation[i] to orientation_list[i], none   *)
(* left at its zero-filled initial value.                               *)
C10_EveryEntryAssigned ==
    (already_integrated /\ ret.op = "get_stabilize_transform" /\ ret.status = "value") =>
        LET smoothed == get_smooth_orientations(orientation_list)
        IN  /\ Len(ret.b) = Len(orientation_list)
            /\ Len(ret.a) = Len(ret.b)
            /\ \A i \in 1..Len(ret.b) :
                   /\ ret.b[i] = rot_between(smoothed[i], orientation_list[i])
                   /\ ret.b[i] # ZeroRow

(* self.data as the constructor left it. *)
constructed_data ==
    IF kind = "Gyro"
    THEN CHOOSE d \in {gyro_data(input_data, time_scaling, gs, zero_out_time) :
                           gs \in GyroScalings} : TRUE
    ELSE input_data

RECURSIVE EulerSum2(_, _)
EulerSum2(d, i) ==
    IF i = 0 THEN <<0, 0, 0>>
    ELSE LET acc == EulerSum2(d, i - 1)
             w == omega_of(d[i])
             dt2 == euler_delta_time2(d, i)
         IN  IF any_omega(w)
             THEN <<acc[1] + w[1] * dt2, acc[2] + w[2] * dt2, acc[3] + w[3] * dt2>>
             ELSE acc

(* C12: EulerIntegrator.integrate_all on N samples completes without     *)
(* error and returns (time_list, track) of length N, track[i] being the  *)
(* plain 3-vector sum over the samples j <= i with non-zero angular      *)
(* velocity of omega[j] * dt[j], dt[j] = (t[j+1] - t[j-1]) / 2 with t[j] *)
(* standing in for a missing neighbour; a second call returns the same.  *)
C12_EulerSumReturned ==
    (kind = "Euler" /\ ret.op = "integrate_all") =>
        /\ ret.status = "value"
        /\ ret.a = [i \in 1..num_data_points |-> data[i][1]]
        /\ ret.b = [i \in 1..num_data_points |-> EulerSum2(data, i)]

====
